---- MODULE Spec2Model ----
(***************************************************************************)
(* Model of the waypoint updater node                                      *)
(* (src/ros/src/waypoint_updater/waypoint_updater.py).                     *)
(*                                                                         *)
(* Numbers.  Lengths are integers in units of 1/Scale metre.  A speed v    *)
(* (never negative in the routes the waypoint loader delivers) is          *)
(* represented by v*v in units of 1/Scale (m/s)^2, so that                 *)
(*   vel = sqrt(2 * MAX_DECEL * dist)   is   2 * MAX_DECEL * dist,         *)
(*   vel < 1.0                          is   vsq < Scale,                  *)
(*   min(a, b)                          is   Min of the squares,           *)
(* all exactly.  Routes are taken from tracks whose consecutive points lie *)
(* at whole distances, so math.sqrt in distance() is exact as well.        *)
(*                                                                         *)
(* The def line of generate_lane (line 93) lacks its colon; the method is  *)
(* read as the def it is meant to be.                                      *)
(***************************************************************************)
EXTENDS Integers, Sequences, FiniteSets, TLC

VARIABLES pose, base_lane, stopline_wp_idx, waypoints_2d, waypoint_tree,
          alive, cycle

vars == <<pose, base_lane, stopline_wp_idx, waypoints_2d, waypoint_tree,
          alive, cycle>>

\* A field that may be None holds <<>> for None and <<v>> for the object v.
None == <<>>
Some(v) == <<v>>
Val(o) == o[1]

\* no exception
NoError == "none"

\* ---------------------------------------------------------------- bounds
Scale == 4
MaxLen == 5
MaxStop == 6
MinStop == 0 - 2
MaxDeliveriesInCycle == 1

\* ------------------------------------------------------ program constants
\* line 28 sets 200; scaled to the routes of MaxLen points, so that windows
\* both reach and fall short of the route's end and a stop target can lie
\* two points into the window
LOOKAHEAD_WPS == 5
\* line 29: MAX_DECEL = 0.5 = MAX_DECEL_NUM / MAX_DECEL_DEN
MAX_DECEL_NUM == 1
MAX_DECEL_DEN == 2

\* ------------------------------------------------------------ arithmetic
Min(a, b) == IF a <= b THEN a ELSE b
Max(a, b) == IF a >= b THEN a ELSE b

\* math.sqrt on the whole squares the tracks produce
Sqrt(n) == CHOOSE r \in 0..n : r * r = n

\* ------------------------------------------------------------ the inputs
Tracks == {"line", "ramp", "loop"}

\* position (x, y, z) of the k-th point (k = 0, 1, ...) of a track
TrackPoint(t, k) ==
    CASE t = "line" -> <<3 * k, 0, 0>>
      [] t = "ramp" -> <<0, 3 * k, 4 * k>>
      [] t = "loop" -> CASE k % 4 = 0 -> <<0, 0, 0>>
                         [] k % 4 = 1 -> <<3, 0, 0>>
                         [] k % 4 = 2 -> <<3, 4, 0>>
                         [] k % 4 = 3 -> <<0, 4, 0>>

Profiles == {"fast", "rising", "falling"}

\* nominal speed (squared, see above) of the k-th point under a profile
ProfileSpeed(p, k) ==
    CASE p = "fast"    -> 64
      [] p = "rising"  -> 1 + 4 * k
      [] p = "falling" -> Max(9 - 3 * k, 0)

\* styx_msgs/Waypoint: pose.pose.position and twist.twist.linear.x
Waypoint(t, p, k) ==
    [x |-> TrackPoint(t, k)[1], y |-> TrackPoint(t, k)[2],
     z |-> TrackPoint(t, k)[3], vsq |-> ProfileSpeed(p, k)]

\* styx_msgs/Lane.waypoints as delivered on /base_waypoints
Routes ==
    {<<>>} \cup
    {[k \in 1..n |-> Waypoint(t, p, k - 1)] :
        t \in Tracks, p \in Profiles, n \in 1..MaxLen}

\* geometry_msgs/PoseStamped positions delivered on /current_pose
PosePoints == {<<0, 0>>, <<2, 0>>, <<4, 1>>, <<3, 4>>, <<0, 5>>, <<7, 0>>}

\* std_msgs/Int32 values delivered on /traffic_waypoint
StopIdxs == MinStop..MaxStop

\* ------------------------------------------------------------- the state
\* What the latest step did: a callback (op "cb", with the exception it
\* raised, if any), or a pass of the loop with the locals of its planning
\* cycle and what it published.
Idle == [op |-> "cb", ready |-> FALSE, raised |-> NoError, nearest |-> 0 - 1,
         closest_idx |-> 0 - 1, farthest_idx |-> 0 - 1, stop |-> 0 - 1,
         shaped |-> FALSE, window |-> <<>>, dists |-> <<>>,
         published |-> <<>>]

Init ==
    /\ pose = None
    /\ base_lane = None
    /\ stopline_wp_idx = 0 - 1
    /\ waypoints_2d = None
    /\ waypoint_tree = None
    /\ alive = TRUE
    /\ cycle = Idle

\* ------------------------------------------------------------- callbacks
\* pose_cb that also forgets the stop index
pose_cb_ResetsStop(msg) ==
    /\ alive
    /\ pose' = Some(msg)
    /\ stopline_wp_idx' = 0 - 1
    /\ cycle' = Idle
    /\ UNCHANGED <<base_lane, waypoints_2d, waypoint_tree, alive>>

pose_cb(msg) ==
    /\ alive
    /\ pose' = Some(msg)
    /\ cycle' = Idle
    /\ UNCHANGED <<base_lane, stopline_wp_idx, waypoints_2d, waypoint_tree,
                   alive>>

\* the list comprehension of waypoints_cb
Coords2D(waypoints) ==
    [k \in 1..Len(waypoints) |-> <<waypoints[k].x, waypoints[k].y>>]

\* Python's truth value of self.waypoints_2d: None and [] are false
Truthy(o) == o # None /\ Val(o) # <<>>

\* scipy.spatial.KDTree(data); raises ValueError on data without 2 dimensions
KDTree(data) == [data |-> data, n |-> Len(data)]

\* waypoints_cb without the presence check of line 138
NeedsBuild_Always(w2d) == TRUE

NeedsBuild(w2d) == ~Truthy(w2d)

waypoints_cb(waypoints) ==
    /\ alive
    /\ base_lane' = Some(waypoints)
    /\ IF NeedsBuild(waypoints_2d)
         THEN /\ waypoints_2d' = Some(Coords2D(waypoints))
              /\ IF Coords2D(waypoints) = <<>>
                   THEN /\ waypoint_tree' = waypoint_tree
                        /\ cycle' = [Idle EXCEPT !.raised = "ValueError"]
                   ELSE /\ waypoint_tree' = Some(KDTree(Coords2D(waypoints)))
                        /\ cycle' = Idle
         ELSE /\ UNCHANGED <<waypoints_2d, waypoint_tree>>
              /\ cycle' = Idle
    /\ UNCHANGED <<pose, stopline_wp_idx, alive>>

traffic_cb(data) ==
    /\ alive
    /\ stopline_wp_idx' = data
    /\ cycle' = Idle
    /\ UNCHANGED <<pose, base_lane, waypoints_2d, waypoint_tree, alive>>

obstacle_cb ==
    /\ alive
    /\ cycle' = Idle
    /\ UNCHANGED <<pose, base_lane, stopline_wp_idx, waypoints_2d,
                   waypoint_tree, alive>>

\* ------------------------------------------------- nearest-point locator
\* squared planar distance, which orders the points as the tree's metric does
SqDist2D(a, b) == (a[1] - b[1]) * (a[1] - b[1]) + (a[2] - b[2]) * (a[2] - b[2])

\* waypoint_tree.query([x, y], 1)[1]: the index of a nearest point (0-based);
\* among equally near points the tree's layout decides, so any of them
query(tree, xy) ==
    {i \in 0..(tree.n - 1) :
        \A j \in 0..(tree.n - 1) :
            SqDist2D(tree.data[i + 1], xy) <= SqDist2D(tree.data[j + 1], xy)}

\* Python list indexing lst[i] for -len <= i < len (a 1-based sequence here)
PyItem(lst, i) == IF i < 0 THEN lst[Len(lst) + i + 1] ELSE lst[i + 1]

\* np.dot of two planar vectors
Dot(u, v) == u[1] * v[1] + u[2] * v[2]

Sub(u, v) == <<u[1] - v[1], u[2] - v[2]>>

\* line 76: np.array(closest_idx), the index itself, which the subtractions
\* broadcast to both components (an index i stands for i metres)
cl_vect(w2d, closest_idx) == <<Scale * closest_idx, Scale * closest_idx>>

\* get_closest_waypoint_idx after the tree has answered closest_idx
get_closest_waypoint_idx(w2d, xy, closest_idx) ==
    LET prev_vect == PyItem(w2d, closest_idx - 1)
        val == Dot(Sub(cl_vect(w2d, closest_idx), prev_vect),
                   Sub(xy, cl_vect(w2d, closest_idx)))
    IN  IF val > 0 THEN (closest_idx + 1) % Len(w2d) ELSE closest_idx

\* ------------------------------------------------------ window extractor
\* Python slice lst[lo:hi] for 0 <= lo <= hi
PySlice(lst, lo, hi) == SubSeq(lst, lo + 1, Min(hi, Len(lst)))

\* ---------------------------------------------------- deceleration shaper
IndexError == 0 - 1

\* the lambda dl of distance()
dl(a, b) ==
    Sqrt((a.x - b.x) * (a.x - b.x) + (a.y - b.y) * (a.y - b.y)
         + (a.z - b.z) * (a.z - b.z))

RECURSIVE distance_loop_NoAdvance(_, _, _, _, _)
\* the for loop of distance() without line 171 (wp1 = i)
distance_loop_NoAdvance(waypoints, wp1, i, wp2, dist) ==
    IF i > wp2 THEN dist
    ELSE IF wp1 >= Len(waypoints) \/ i >= Len(waypoints) THEN IndexError
    ELSE distance_loop_NoAdvance(waypoints, wp1, i + 1, wp2,
                       dist + dl(waypoints[wp1 + 1], waypoints[i + 1]))

RECURSIVE distance_loop(_, _, _, _, _)
\* the for loop of distance() from its iteration i on; waypoints[..] raises
\* IndexError past the end of the list
distance_loop(waypoints, wp1, i, wp2, dist) ==
    IF i > wp2 THEN dist
    ELSE IF wp1 >= Len(waypoints) \/ i >= Len(waypoints) THEN IndexError
    ELSE distance_loop(waypoints, i, i + 1, wp2,
                       dist + dl(waypoints[wp1 + 1], waypoints[i + 1]))

\* distance() accumulating from the start of the window whatever wp1 is
distance_FromStart(waypoints, wp1, wp2) ==
    distance_loop(waypoints, 0, 0, wp2, 0)

distance(waypoints, wp1, wp2) == distance_loop(waypoints, wp1, wp1, wp2, 0)

\* line 118 with + 2 for - 2
stop_idx_Ahead(stopline, closest_idx) == Max(stopline - closest_idx + 2, 0)

\* line 118
stop_idx(stopline, closest_idx) == Max(stopline - closest_idx - 2, 0)

\* line 119 measuring from the start of the window to the point i
decelerate_dists_ToPoint(waypoints, closest_idx, stopline) ==
    [k \in 1..Len(waypoints) |-> distance(waypoints, 0, k - 1)]

\* line 119 with the distance to the stop target taken once, before the
\* enumeration, and so for a window without points as well
decelerate_dists_Hoisted(waypoints, closest_idx, stopline) ==
    IF distance(waypoints, 0, stop_idx(stopline, closest_idx)) = IndexError
      THEN <<IndexError>>
      ELSE [k \in 1..Len(waypoints) |->
               distance(waypoints, k - 1, stop_idx(stopline, closest_idx))]

\* line 119, for every i of the enumeration
decelerate_dists(waypoints, closest_idx, stopline) ==
    [k \in 1..Len(waypoints) |->
        distance(waypoints, k - 1, stop_idx(stopline, closest_idx))]

\* lines 120-122 without the snap to 0.0
velocity_NoSnap(dist) == (2 * MAX_DECEL_NUM * dist) \div MAX_DECEL_DEN

\* lines 120-122
velocity(dist) ==
    LET vel == (2 * MAX_DECEL_NUM * dist) \div MAX_DECEL_DEN
    IN  IF vel < Scale THEN 0 ELSE vel

\* lines 115-125: a new point with the pose of wp and the shaped speed
decelerated(wp, dist) == [wp EXCEPT !.vsq = Min(velocity(dist), wp.vsq)]

decelerate_waypoints(waypoints, closest_idx, stopline) ==
    [k \in 1..Len(waypoints) |->
        decelerated(waypoints[k],
                    decelerate_dists(waypoints, closest_idx, stopline)[k])]

\* line 105 with > for >=
Shapes_Strict(stopline, farthest_idx) ==
    ~(stopline = 0 - 1 \/ stopline > farthest_idx)

\* line 105, negated: the window goes through the shaper
Shapes(stopline, farthest_idx) ==
    ~(stopline = 0 - 1 \/ stopline >= farthest_idx)

\* ------------------------------------------------------- planning cycle
\* line 58
Ready == pose # None /\ base_lane # None /\ waypoint_tree # None

\* generate_lane and publish_waypoint, the tree having answered nearest
generate_lane(nearest) ==
    LET closest_idx == get_closest_waypoint_idx(Val(waypoints_2d), Val(pose),
                                                nearest)
        farthest_idx == closest_idx + LOOKAHEAD_WPS
        base_lane_waypoints == PySlice(Val(base_lane), closest_idx,
                                       farthest_idx)
        shaped == Shapes(stopline_wp_idx, farthest_idx)
        dists == IF shaped
                   THEN decelerate_dists(base_lane_waypoints, closest_idx,
                                         stopline_wp_idx)
                   ELSE <<>>
        raises == \E k \in 1..Len(dists) : dists[k] = IndexError
        lane == IF shaped
                  THEN decelerate_waypoints(base_lane_waypoints, closest_idx,
                                            stopline_wp_idx)
                  ELSE base_lane_waypoints
    IN  [op |-> "loop", ready |-> TRUE,
         raised |-> IF raises THEN "IndexError" ELSE NoError,
         nearest |-> nearest, closest_idx |-> closest_idx,
         farthest_idx |-> farthest_idx, stop |-> stopline_wp_idx,
         shaped |-> shaped, window |-> base_lane_waypoints,
         dists |-> IF raises THEN <<>> ELSE dists,
         published |-> IF raises THEN <<>> ELSE <<lane>>]

\* the window of a planning cycle written back over the route points it
\* was taken from
WrittenBack(route, c) ==
    IF c.published = <<>> THEN route
    ELSE [k \in 1..Len(route) |->
             IF k > c.closest_idx /\ k <= c.closest_idx + Len(c.published[1])
               THEN c.published[1][k - c.closest_idx]
               ELSE route[k]]

\* a pass of the loop whose shaper sets the speeds of the route's own points
loop_InPlace ==
    /\ alive
    /\ IF Ready
         THEN \E nearest \in query(Val(waypoint_tree), Val(pose)) :
                /\ cycle' = generate_lane(nearest)
                /\ alive' = (generate_lane(nearest).raised = NoError)
                /\ base_lane' = Some(WrittenBack(Val(base_lane),
                                                 generate_lane(nearest)))
         ELSE /\ cycle' = [Idle EXCEPT !.op = "loop"]
              /\ alive' = alive
              /\ base_lane' = base_lane
    /\ UNCHANGED <<pose, stopline_wp_idx, waypoints_2d, waypoint_tree>>

\* one pass of the while loop of loop(); an exception leaves the loop and
\* ends the process
loop ==
    /\ alive
    /\ IF Ready
         THEN \E nearest \in query(Val(waypoint_tree), Val(pose)) :
                /\ cycle' = generate_lane(nearest)
                /\ alive' = (generate_lane(nearest).raised = NoError)
         ELSE /\ cycle' = [Idle EXCEPT !.op = "loop"]
              /\ alive' = alive
    /\ UNCHANGED <<pose, base_lane, stopline_wp_idx, waypoints_2d,
                   waypoint_tree>>

Next ==
    \/ \E msg \in PosePoints : pose_cb(msg)
    \/ \E waypoints \in Routes : waypoints_cb(waypoints)
    \/ \E data \in StopIdxs : traffic_cb(data)
    \/ obstacle_cb
    \/ loop

Spec == Init /\ [][Next]_vars

\* ------------------------------------------------------------ type check
TypeOK ==
    /\ pose \in {Some(xy) : xy \in PosePoints} \cup {None}
    /\ base_lane \in {Some(r) : r \in Routes} \cup {None}
    /\ stopline_wp_idx \in StopIdxs \cup {0 - 1}
    /\ alive \in BOOLEAN
    /\ waypoint_tree # None => Val(waypoint_tree).data = Val(waypoints_2d)

\* ---------------------------------------------------------------- claims
\* the latest step was a pass of the loop that found the node ready
Planned == cycle.op = "loop" /\ cycle.ready

\* the latest step was a planning cycle that published a window
Emitted == Planned /\ cycle.published # <<>>

\* the window it published
Lane == cycle.published[1]

\* stopLocal of the latest planning cycle
StopLocal == Max(cycle.stop - cycle.closest_idx - 2, 0)

\* C1: a pass of the loop publishes nothing while the pose, the route or the
\* spatial index is absent, and publishes exactly one window when all three
\* are present.
C1_ReadinessGating ==
    cycle.op = "loop" =>
        IF pose # None /\ base_lane # None /\ waypoint_tree # None
          THEN Len(cycle.published) = 1
          ELSE Len(cycle.published) = 0

\* C2: when the stop index is -1 or at least closest index + LOOKAHEAD_WPS,
\* the planning cycle publishes a window whose points are the route points
\* from the closest index on, each with its nominal speed.
C2_PassThrough ==
    (Planned /\ (cycle.stop = 0 - 1
                 \/ cycle.stop >= cycle.closest_idx + LOOKAHEAD_WPS)) =>
        /\ Len(cycle.published) = 1
        /\ Len(Lane) = Len(cycle.window)
        /\ \A k \in 1..Len(Lane) :
              /\ cycle.closest_idx + k <= Len(Val(base_lane))
              /\ Lane[k] = Val(base_lane)[cycle.closest_idx + k]

\* a window of more than one point passed through although a stop index
\* other than the sentinel is stored
C2_Witness ==
    /\ Emitted
    /\ cycle.stop >= cycle.closest_idx + LOOKAHEAD_WPS
    /\ Len(Lane) >= 2
    /\ \E k \in 1..Len(Lane) : Lane[k].vsq > 0

\* C3: the published window holds the route points c, c+1, ... in order, c
\* being the closest index; its length is min(LOOKAHEAD_WPS, N - c) for the
\* stored route's length N, so at most LOOKAHEAD_WPS, and it holds no point
\* before c.
C3_ForwardSlice ==
    Emitted =>
        /\ Len(Lane) = Min(LOOKAHEAD_WPS,
                           Len(Val(base_lane)) - cycle.closest_idx)
        /\ Len(Lane) <= LOOKAHEAD_WPS
        /\ \A k \in 1..Len(Lane) :
              /\ Lane[k].x = Val(base_lane)[cycle.closest_idx + k].x
              /\ Lane[k].y = Val(base_lane)[cycle.closest_idx + k].y
              /\ Lane[k].z = Val(base_lane)[cycle.closest_idx + k].z

\* the locator of section 4.2 of the specification, for the nearest index c
SpecLocate(w2d, xy, c) ==
    LET C == w2d[c + 1]
        prev == IF c = 0 THEN w2d[Len(w2d)] ELSE w2d[c]
    IN  IF Dot(Sub(C, prev), Sub(xy, C)) > 0 THEN (c + 1) % Len(w2d) ELSE c

\* C4: the closest index of a planning cycle is (c + 1) mod N when
\* dot(C - prev, P - C) > 0 and c otherwise, c being the index the spatial
\* index answered, C and prev the coordinates of the points c and c - 1.
C4_LocateDisambiguation ==
    Planned =>
        cycle.closest_idx =
            SpecLocate(Val(waypoints_2d), Val(pose), cycle.nearest)

\* the latest planning cycle published a window that went through the shaper
EmittedShaped == Emitted /\ cycle.shaped

\* C5: every point of a shaped window carries min(vel, nominal speed), vel
\* being sqrt(2 * MAX_DECEL * dist), or 0 when that is below 1.0; so no
\* speed exceeds the nominal speed of its route point, and the speed is 0
\* whenever 2 * MAX_DECEL * dist < 1.
C5_CapAndSnap ==
    EmittedShaped =>
        \A k \in 1..Len(Lane) :
            LET d == cycle.dists[k]
                nominal == Val(base_lane)[cycle.closest_idx + k].vsq
                below1 == 2 * MAX_DECEL_NUM * d < MAX_DECEL_DEN * Scale
                vel == IF below1 THEN 0
                       ELSE (2 * MAX_DECEL_NUM * d) \div MAX_DECEL_DEN
            IN  /\ Lane[k].vsq = IF vel <= nominal THEN vel ELSE nominal
                /\ Lane[k].vsq <= nominal
                /\ below1 => Lane[k].vsq = 0

\* a shaped window with a point capped by its nominal speed and a point at
\* a positive distance whose speed is snapped to 0
C5_Witness ==
    /\ EmittedShaped
    /\ \E k \in 1..Len(Lane) :
          /\ velocity(cycle.dists[k]) > cycle.window[k].vsq
          /\ Lane[k].vsq = cycle.window[k].vsq
          /\ Lane[k].vsq > 0
    /\ \E k \in 1..Len(Lane) :
          /\ cycle.dists[k] > 0
          /\ cycle.window[k].vsq > 0
          /\ Lane[k].vsq = 0

\* C6: in a shaped window the speed is 0 at the local index stopLocal and at
\* every later one; with the stop index at most closest index + 2 every
\* speed of the window is 0.
C6_RestAtStop ==
    EmittedShaped =>
        /\ \A k \in 1..Len(Lane) : k - 1 >= StopLocal => Lane[k].vsq = 0
        /\ cycle.stop <= cycle.closest_idx + 2 =>
              \A k \in 1..Len(Lane) : Lane[k].vsq = 0

\* a shaped window that moves before the stop target and rests from it on,
\* where the route's nominal speed is not 0
C6_Witness ==
    /\ EmittedShaped
    /\ StopLocal >= 1
    /\ Len(Lane) > StopLocal + 1
    /\ Lane[1].vsq > 0
    /\ cycle.window[StopLocal + 1].vsq > 0
    /\ cycle.window[StopLocal + 2].vsq > 0

\* C7 as stated: in every shaped window, whatever the nominal speeds, the
\* speeds do not increase from one point to the next up to the stop index.
C7_Monotonic ==
    EmittedShaped =>
        \A k \in 1..(Len(Lane) - 1) :
            k <= StopLocal => Lane[k + 1].vsq <= Lane[k].vsq

\* the nominal speeds of the window do not increase up to the stop index
NominalNonIncreasing ==
    \A k \in 1..(Len(cycle.window) - 1) :
        k <= StopLocal => cycle.window[k + 1].vsq <= cycle.window[k].vsq

\* C7 amended: in every shaped window whose nominal speeds do not increase
\* up to the stop index, the speeds do not increase from one point to the
\* next up to the stop index.
C7_MonotonicUnderNominal ==
    (EmittedShaped /\ NominalNonIncreasing) =>
        \A k \in 1..(Len(Lane) - 1) :
            k <= StopLocal => Lane[k + 1].vsq <= Lane[k].vsq

\* a shaped window with nominal speeds that do not increase and speeds that
\* strictly decrease over two points before the stop target
C7_Witness ==
    /\ EmittedShaped
    /\ NominalNonIncreasing
    /\ StopLocal >= 2
    /\ Len(Lane) > 2
    /\ Lane[1].vsq > Lane[2].vsq
    /\ Lane[2].vsq > 0

RECURSIVE ArcLength(_, _, _)
\* the length of the polyline from the point i to the point j of a window
\* (0-based), 0 when j is not after i
ArcLength(window, i, j) ==
    IF j <= i THEN 0
    ELSE ArcLength(window, i, j - 1) + dl(window[j], window[j + 1])

\* C8 as stated: for every point of a shaped window, the distance that
\* gives vel is the arc length from window[0] to window[stopLocal], the same
\* for all points.
C8_AnchoredAtStart ==
    EmittedShaped =>
        \A k \in 1..Len(Lane) :
            cycle.dists[k] = ArcLength(cycle.window, 0, StopLocal)

\* C8 amended: for the point i of a shaped window, the distance that gives
\* vel is the arc length from window[i] to window[stopLocal], and 0 from
\* stopLocal on; it does not grow with i.
C8_AnchoredAtPoint ==
    EmittedShaped =>
        /\ \A k \in 1..Len(Lane) :
              cycle.dists[k] = ArcLength(cycle.window, k - 1, StopLocal)
        /\ \A k \in 1..(Len(Lane) - 1) :
              cycle.dists[k + 1] <= cycle.dists[k]

\* a shaped window with three different stopping distances
C8_Witness ==
    /\ EmittedShaped
    /\ StopLocal >= 2
    /\ Len(Lane) > 2
    /\ cycle.dists[1] > cycle.dists[2]
    /\ cycle.dists[2] > cycle.dists[3]

\* what the locator can return for a position, the index being built
LocateResults(xy) ==
    {get_closest_waypoint_idx(Val(waypoints_2d), xy, c) :
        c \in query(Val(waypoint_tree), xy)}

\* C9: once the spatial index is built, no step, and so no further route
\* delivery with the same or with other data, changes the indexed
\* coordinates or the index, and the locator returns for the stored
\* position what it returned before the step.
C9_IdempotentLoad ==
    [][waypoint_tree # None =>
          /\ waypoints_2d' = waypoints_2d
          /\ waypoint_tree' = waypoint_tree
          /\ \A xy \in PosePoints :
                pose = Some(xy) => LocateResults(xy)' = LocateResults(xy)]_vars

\* a route with other coordinates than the indexed ones was delivered after
\* the index was built, and a planning cycle has run on it
C9_Witness ==
    /\ Planned
    /\ Val(base_lane) # <<>>
    /\ Coords2D(Val(base_lane)) # Val(waypoint_tree).data

\* C10: once the spatial index is built, it has as many points as the stored
\* route, and the stored route is the one it was built from.
C10_RouteIndexConsistent ==
    waypoint_tree # None =>
        /\ Val(waypoint_tree).n = Len(Val(base_lane))
        /\ Coords2D(Val(base_lane)) = Val(waypoint_tree).data

\* C11: a planning cycle with a stored stop index outside [0, N), N the
\* length of the stored route, raises no error and publishes the window
\* with the nominal speeds.
C11_OutOfRangeIgnored ==
    (Planned /\ (cycle.stop < 0 \/ cycle.stop >= Len(Val(base_lane)))) =>
        /\ cycle.raised = NoError
        /\ cycle.published = <<cycle.window>>

\* C12: while the stored route is the zero-length one, the planner is not
\* ready and a pass of the loop publishes nothing.
C12_EmptyRouteRejected ==
    (base_lane # None /\ Val(base_lane) = <<>>) =>
        /\ ~Ready
        /\ cycle.published = <<>>

\* C13: a planning cycle whose window has no points raises no error and
\* publishes the empty trajectory, through the shaper or not.
C13_DegenerateWindow ==
    (Planned /\ cycle.window = <<>>) =>
        /\ cycle.raised = NoError
        /\ cycle.published = <<<<>>>>

\* an empty window went through the shaper and was published
C13_Witness ==
    /\ Planned
    /\ cycle.window = <<>>
    /\ cycle.shaped
    /\ cycle.stop >= 0
    /\ cycle.published = <<<<>>>>

\* C14: a step that changes the pose changes neither the stop index, the
\* route nor the index; a step that changes the stop index changes neither
\* the pose, the route nor the index; an obstacle delivery changes none of
\* them; and a planning cycle works on the stored pose and stop index.
C14_LatestValueWins ==
    [][/\ pose' # pose =>
            UNCHANGED <<stopline_wp_idx, base_lane, waypoints_2d,
                        waypoint_tree>>
       /\ stopline_wp_idx' # stopline_wp_idx =>
            UNCHANGED <<pose, base_lane, waypoints_2d, waypoint_tree>>
       /\ obstacle_cb =>
            UNCHANGED <<pose, stopline_wp_idx, base_lane, waypoints_2d,
                        waypoint_tree>>
       /\ (cycle'.op = "loop" /\ cycle'.ready) =>
            /\ cycle'.stop = stopline_wp_idx
            /\ cycle'.nearest \in query(Val(waypoint_tree), Val(pose))]_vars

\* a planning cycle has shaped a window with a delivered stop index for a
\* delivered pose away from the first route point
C14_Witness ==
    /\ Emitted
    /\ cycle.shaped
    /\ cycle.stop = stopline_wp_idx
    /\ cycle.stop > 0
    /\ cycle.nearest > 0
    /\ cycle.nearest \in query(Val(waypoint_tree), Val(pose))

\* C16: once the pose, the route and the index are present they stay
\* present, and every pass of the loop from then on publishes a window.
C16_ReadyStable ==
    [][Ready => /\ Ready'
                /\ cycle'.op = "loop" => Len(cycle'.published) = 1]_vars

\* C17: a pass of the loop leaves the pose, the stop index, the route with
\* its nominal speeds, the indexed coordinates and the index as they are.
C17_CycleReadOnly ==
    [][cycle'.op = "loop" =>
          UNCHANGED <<pose, stopline_wp_idx, base_lane, waypoints_2d,
                      waypoint_tree>>]_vars

\* a shaped window with a speed below the nominal speed that the stored
\* route still holds for the point
C17_Witness ==
    /\ EmittedShaped
    /\ cycle.stop > 0
    /\ Len(Lane) >= 2
    /\ \E k \in 1..Len(Lane) :
          /\ Lane[k].vsq < cycle.window[k].vsq
          /\ Val(base_lane)[cycle.closest_idx + k] = cycle.window[k]

\* the stored route has the coordinates the index was built from
RouteIsIndexed == Coords2D(Val(base_lane)) = Val(waypoint_tree).data

\* C18: with the stored route the indexed one, of length N, and a stop index
\* in [0, N) below closest index + LOOKAHEAD_WPS, stopLocal is less than
\* the length of the window and the cycle reads no position outside the
\* window: it raises no IndexError and publishes.
C18_ShapingInsideWindow ==
    (/\ Planned
     /\ RouteIsIndexed
     /\ cycle.stop >= 0
     /\ cycle.stop < Len(Val(base_lane))
     /\ cycle.stop < cycle.closest_idx + LOOKAHEAD_WPS) =>
        /\ StopLocal < Len(cycle.window)
        /\ cycle.raised = NoError
        /\ Len(cycle.published) = 1

\* a window cut short by the end of the indexed route was shaped for a stop
\* target that is its last point but two
C18_Witness ==
    /\ EmittedShaped
    /\ RouteIsIndexed
    /\ cycle.stop = Len(Val(base_lane)) - 1
    /\ Len(cycle.window) < LOOKAHEAD_WPS
    /\ StopLocal >= 1
    /\ StopLocal = Len(cycle.window) - 3

\* ------------------------------------- the planning cycle, step by step
\* rospy runs the subscriber callbacks on threads of their own, so traffic_cb
\* can run between any two reads of self.stopline_wp_idx that a planning
\* cycle makes: two on line 105 and one on line 118 for every point of the
\* window.  A cycle in progress is cycle.op = "running", with the line it is
\* at in cycle.pc and the values the stop index has held since it began in
\* cycle.held.  The cycle reads the pose, the route and the index on lines
\* 58-103 only, so deliveries of those are taken between cycles.

\* routes delivered in this specification
ConcRoutes ==
    {[k \in 1..n |-> Waypoint("line", "fast", k - 1)] : n \in 1..MaxLen}

InCycle == cycle.op = "running"

\* lines 58-103: the readiness test, the locator and the slice
conc_begin ==
    /\ alive
    /\ ~InCycle
    /\ IF Ready
         THEN \E nearest \in query(Val(waypoint_tree), Val(pose)) :
                LET closest_idx ==
                        get_closest_waypoint_idx(Val(waypoints_2d), Val(pose),
                                                 nearest)
                IN  cycle' = [op |-> "running", pc |-> "105a", ready |-> TRUE,
                              raised |-> NoError, nearest |-> nearest,
                              closest_idx |-> closest_idx,
                              farthest_idx |-> closest_idx + LOOKAHEAD_WPS,
                              stop |-> stopline_wp_idx, shaped |-> FALSE,
                              window |-> PySlice(Val(base_lane), closest_idx,
                                             closest_idx + LOOKAHEAD_WPS),
                              dists |-> <<>>, published |-> <<>>,
                              held |-> {stopline_wp_idx}]
         ELSE cycle' = [Idle EXCEPT !.op = "loop"]
    /\ UNCHANGED <<pose, base_lane, stopline_wp_idx, waypoints_2d,
                   waypoint_tree, alive>>

\* lines 106 and 91: the slice is published as it is
conc_pass == [cycle EXCEPT !.op = "loop", !.pc = "done",
                           !.stop = stopline_wp_idx,
                           !.published = <<cycle.window>>]

\* line 105, self.stopline_wp_idx == -1
conc_test_sentinel ==
    /\ alive
    /\ InCycle
    /\ cycle.pc = "105a"
    /\ cycle' = IF stopline_wp_idx = 0 - 1
                  THEN conc_pass
                  ELSE [cycle EXCEPT !.pc = "105b"]
    /\ UNCHANGED <<pose, base_lane, stopline_wp_idx, waypoints_2d,
                   waypoint_tree, alive>>

\* line 105, self.stopline_wp_idx >= farthest_idx
conc_test_farthest ==
    /\ alive
    /\ InCycle
    /\ cycle.pc = "105b"
    /\ cycle' = IF stopline_wp_idx >= cycle.farthest_idx
                  THEN conc_pass
                  ELSE [cycle EXCEPT !.pc = "118", !.shaped = TRUE,
                                     !.stop = stopline_wp_idx]
    /\ UNCHANGED <<pose, base_lane, stopline_wp_idx, waypoints_2d,
                   waypoint_tree, alive>>

\* lines 114-125 for the next point of the window
conc_decelerate_point ==
    /\ alive
    /\ InCycle
    /\ cycle.pc = "118"
    /\ Len(cycle.dists) < Len(cycle.window)
    /\ LET dist == distance(cycle.window, Len(cycle.dists),
                            stop_idx(stopline_wp_idx, cycle.closest_idx))
       IN  IF dist = IndexError
             THEN /\ cycle' = [cycle EXCEPT !.op = "loop", !.pc = "done",
                                            !.raised = "IndexError",
                                            !.dists = <<>>]
                  /\ alive' = FALSE
             ELSE /\ cycle' = [cycle EXCEPT !.dists = Append(@, dist)]
                  /\ alive' = alive
    /\ UNCHANGED <<pose, base_lane, stopline_wp_idx, waypoints_2d,
                   waypoint_tree>>

\* lines 127, 108 and 91: the shaped window is published
conc_publish ==
    /\ alive
    /\ InCycle
    /\ cycle.pc = "118"
    /\ Len(cycle.dists) = Len(cycle.window)
    /\ cycle' = [cycle EXCEPT
                    !.op = "loop", !.pc = "done",
                    !.published =
                        <<[k \in 1..Len(cycle.window) |->
                             decelerated(cycle.window[k], cycle.dists[k])]>>]
    /\ UNCHANGED <<pose, base_lane, stopline_wp_idx, waypoints_2d,
                   waypoint_tree, alive>>

\* traffic_cb while a planning cycle is in progress
conc_traffic_cb(data) ==
    /\ alive
    /\ InCycle
    /\ data \in cycle.held \/ Cardinality(cycle.held) <= MaxDeliveriesInCycle
    /\ stopline_wp_idx' = data
    /\ cycle' = [cycle EXCEPT !.held = @ \cup {data}]
    /\ UNCHANGED <<pose, base_lane, waypoints_2d, waypoint_tree, alive>>

NextConc ==
    \/ \E msg \in PosePoints : ~InCycle /\ pose_cb(msg)
    \/ \E waypoints \in ConcRoutes : ~InCycle /\ waypoints_cb(waypoints)
    \/ \E data \in StopIdxs : ~InCycle /\ traffic_cb(data)
    \/ \E data \in StopIdxs : conc_traffic_cb(data)
    \/ conc_begin
    \/ conc_test_sentinel
    \/ conc_test_farthest
    \/ conc_decelerate_point
    \/ conc_publish

SpecConc == Init /\ [][NextConc]_vars

\* what a planning cycle does with the window of the latest cycle when the
\* stop index is s from its beginning to its end
Snapshot(s) ==
    LET shaped == Shapes(s, cycle.farthest_idx)
        dists == decelerate_dists(cycle.window, cycle.closest_idx, s)
        raises == shaped /\ \E k \in 1..Len(dists) : dists[k] = IndexError
    IN  [raised |-> IF raises THEN "IndexError" ELSE NoError,
         published |->
             IF raises THEN <<>>
             ELSE IF shaped
               THEN <<decelerate_waypoints(cycle.window, cycle.closest_idx,
                                           s)>>
               ELSE <<cycle.window>>]

\* C15: a planning cycle that stop-index deliveries interleave with ends as
\* a cycle ends that works from its beginning to its end with one of the
\* values the stop index held meanwhile: it publishes that cycle's window
\* and raises no error that cycle does not raise.
C15_OneSnapshot ==
    (Planned /\ cycle.pc = "done") =>
        \E s \in cycle.held :
            /\ cycle.published = Snapshot(s).published
            /\ cycle.raised = Snapshot(s).raised

====
